---- MODULE Spec2Model ----
(***************************************************************************)
(* A model of tcmirs: the IBTrACS track loader (ibtracs.py), the MIRS      *)
(* granule matcher and merger (mirs.py), the output assembler (output.py)  *)
(* and the command line driver (cli.py).                                   *)
(*                                                                         *)
(* Text (storm names, file names, CSV cells) is a sequence of character    *)
(* codes.  Latitudes and longitudes are counted in eighths of a degree,    *)
(* which binary floating point holds exactly; a timestamp is a number of   *)
(* seconds since 1970-01-01T00:00:00.                                      *)
(***************************************************************************)
EXTENDS Integers, Sequences, FiniteSets, TLC

VARIABLES
    entry,                    \* the function the run entered through
    pc,                       \* control position
    err,                      \* the exception that ended the run, if any
    returned,                 \* the functions that have returned normally
    argv,                     \* command line words
    args,                     \* argparse namespace
    output_file,              \* main: output_file
    name,                     \* get_storm_track / build_output_dataset: storm name
    year,                     \* get_storm_track / build_output_dataset: storm year
    ibtracs_csv,              \* the IBTrACS table on disk (row 1 is the units row)
    filter_missing_wmo,       \* get_storm_track: filter_missing_wmo
    track,                    \* the DataFrame get_storm_track returns
    mirs_dir,                 \* the granule directory, in os.listdir order
    time_window_hours,        \* find_mirs_files: time_window_hours
    require_east_of_dateline, \* find_mirs_files: require_east_of_dateline
    track_indices,            \* find_mirs_files: track_indices
    ipos,                     \* find_mirs_files: position in indices
    fpos,                     \* find_mirs_files: position in mirs_files
    matched,                  \* find_mirs_files: matched
    handles,                  \* granule files opened and not closed, oldest first
    img_files,                \* imagery file names
    snd_files,                \* sounding file names
    ds_img,                   \* merged imagery dataset
    ds_snd,                   \* merged sounding dataset
    ibt_nc,                   \* the IBTrACS netCDF dataset on disk
    ds_out,                   \* the dataset build_output_dataset returns
    written,                  \* output artifacts on disk
    dlon,                     \* _lon_to_360: argument
    lon360                    \* _lon_to_360: result

vars == << entry, pc, err, returned, argv, args, output_file, name, year,
           ibtracs_csv, filter_missing_wmo, track, mirs_dir, time_window_hours,
           require_east_of_dateline, track_indices, ipos, fpos, matched,
           handles, img_files, snd_files, ds_img, ds_snd, ibt_nc, ds_out,
           written, dlon, lon360 >>

\* ------------------------------------------------------------------ bounds

MaxRows == 2
MaxFiles == 2
MaxStorms == 2

\* ------------------------------------------------------------------ text

Range(s) == { s[i] : i \in 1..Len(s) }

\* str.startswith
StartsWith(s, p) == Len(p) <= Len(s) /\ SubSeq(s, 1, Len(p)) = p

\* str.endswith
EndsWith(s, p) == Len(p) <= Len(s) /\ SubSeq(s, Len(s) - Len(p) + 1, Len(s)) = p

\* str < str, by code point
StrLess(a, b) ==
    \E k \in 1..(Len(b)) :
        /\ k <= Len(a) + 1
        /\ SubSeq(a, 1, k - 1) = SubSeq(b, 1, k - 1)
        /\ (k = Len(a) + 1 \/ a[k] < b[k])

\* sorted(...) over a set of strings
RECURSIVE SortedSeq(_)
SortedSeq(S) ==
    IF S = {} THEN << >>
    ELSE LET m == CHOOSE x \in S : \A y \in S \ {x} : StrLess(x, y)
         IN  << m >> \o SortedSeq(S \ {m})

\* str.upper, on ASCII
UpperChar(c) == IF c >= 97 /\ c <= 122 THEN c - 32 ELSE c
Upper(s) == [ i \in 1..Len(s) |-> UpperChar(s[i]) ]

\* str(int), for a non-negative integer
RECURSIVE Digits(_)
Digits(n) == IF n < 10 THEN << 48 + n >> ELSE Digits(n \div 10) \o << 48 + (n % 10) >>

\* float(text) of a decimal numeral with three decimals, in eighths of a degree
ParseFloat(t) ==
    (IF t.sign = "-" THEN -1 ELSE 1) * (t.int * 8 + (t.frac \div 125))

\* round(x, 2) of a float holding k eighths, in hundredths: ties go to even
Round2(k) ==
    LET twice == 25 * k
        lo    == (twice - (twice % 2)) \div 2
    IN  IF twice % 2 = 0 THEN lo
        ELSE IF lo % 2 = 0 THEN lo ELSE lo + 1

\* ------------------------------------------------------------------ time

DaysFromCivil(y, m, d) ==
    LET yy  == IF m <= 2 THEN y - 1 ELSE y
        era == yy \div 400
        yoe == yy - era * 400
        mp  == IF m > 2 THEN m - 3 ELSE m + 9
        doy == (153 * mp + 2) \div 5 + d - 1
        doe == yoe * 365 + yoe \div 4 - yoe \div 100 + doy
    IN  era * 146097 + doe - 719468

\* pd.to_datetime of <<year, month, day, hour, minute, second>>
ToDatetime(t) ==
    DaysFromCivil(t[1], t[2], t[3]) * 86400 + t[4] * 3600 + t[5] * 60 + t[6]

\* pd.to_datetime(str(year))
YearStart(y) == ToDatetime(<< y, 1, 1, 0, 0, 0 >>)

\* pd.to_timedelta(h, unit="h")
Hours(h) == h * 3600

\* ------------------------------------------------------------------ ibtracs.py

FullCircle == 360 * 8

\* _lon_to_360: (360 + (dlon % 360)) % 360
LonTo360Unwrapped(d) == FullCircle + (d % FullCircle)
_lon_to_360(d) == (FullCircle + (d % FullCircle)) % FullCircle

Blank == << 32 >>

\* data.iloc[1:, :]: the rows after the units row, under their index labels
DataLabels(csv) == { i \in 1..Len(csv) : i >= 2 }

KeptLabelsInclusive(n, y, csv, filt) ==
    LET named  == { i \in DataLabels(csv) : csv[i].NAME = n }
        inYear == { i \in named :
                      /\ ToDatetime(csv[i].ISO_TIME) >= YearStart(y)
                      /\ ToDatetime(csv[i].ISO_TIME) <= YearStart(y + 1) }
    IN  IF filt THEN { i \in inYear : csv[i].WMO_WIND # Blank /\ csv[i].WMO_PRES # Blank }
        ELSE inYear

\* the rows get_storm_track keeps, as positions in the table, in table order
KeptLabels(n, y, csv, filt) ==
    LET year_start == YearStart(y)
        year_end   == YearStart(y + 1)
        named      == { i \in DataLabels(csv) : csv[i].NAME = n }
        inYear     == { i \in named :
                          /\ ToDatetime(csv[i].ISO_TIME) >= year_start
                          /\ ToDatetime(csv[i].ISO_TIME) < year_end }
        withWind   == IF filt THEN { i \in inYear : csv[i].WMO_WIND # Blank } ELSE inYear
        withPres   == IF filt THEN { i \in withWind : csv[i].WMO_PRES # Blank } ELSE withWind
    IN  withPres

RECURSIVE Ascending(_)
Ascending(S) ==
    IF S = {} THEN << >>
    ELSE LET m == CHOOSE x \in S : \A z \in S : x <= z
         IN  << m >> \o Ascending(S \ {m})

\* one row of the returned DataFrame; index is the pandas label (0 = units row)
TrackRow(csv, i) ==
    [ index    |-> i - 1,
      NAME     |-> csv[i].NAME,
      ISO_TIME |-> ToDatetime(csv[i].ISO_TIME),
      WMO_WIND |-> csv[i].WMO_WIND,
      WMO_PRES |-> csv[i].WMO_PRES,
      LAT      |-> csv[i].LAT,
      LON_180  |-> csv[i].LON,
      LON      |-> _lon_to_360(ParseFloat(csv[i].LON)) ]

get_storm_track(n, y, csv, filt) ==
    LET keep == Ascending(KeptLabels(n, y, csv, filt))
    IN  [ k \in 1..Len(keep) |-> TrackRow(csv, keep[k]) ]

\* ------------------------------------------------------------------ table inputs

Dec(sign, int, frac) == [ sign |-> sign, int |-> int, frac |-> frac ]

IDA  == << 73, 68, 65 >>
ida  == << 105, 100, 97 >>
TEST == << 84, 69, 83, 84 >>

UnitsRow ==
    [ NAME |-> Blank, ISO_TIME |-> << 0, 0, 0, 0, 0, 0 >>, WMO_WIND |-> << 107, 116, 115 >>,
      WMO_PRES |-> << 109, 98 >>, LAT |-> Dec("", 0, 0), LON |-> Dec("", 0, 0) ]

Row(n, t, wind, pres, lat, lon) ==
    [ NAME |-> n, ISO_TIME |-> t, WMO_WIND |-> wind, WMO_PRES |-> pres,
      LAT |-> lat, LON |-> lon ]

RowA == Row(IDA, << 2021, 8, 29, 12, 0, 0 >>, << 49, 51, 48 >>, << 57, 51, 48 >>,
            Dec("", 29, 0), Dec("-", 90, 125))
RowB == Row(IDA, << 2021, 8, 29, 18, 0, 0 >>, << 49, 50, 48 >>, Blank,
            Dec("", 29, 500), Dec("-", 90, 500))
RowC == Row(IDA, << 2021, 12, 31, 23, 59, 59 >>, Blank, << 57, 57, 48 >>,
            Dec("", 30, 500), Dec("-", 180, 0))
RowD == Row(IDA, << 2022, 1, 1, 0, 0, 0 >>, << 52, 48 >>, << 57, 57, 53 >>,
            Dec("", 31, 0), Dec("", 170, 250))
RowE == Row(IDA, << 2021, 1, 1, 0, 0, 0 >>, << 51, 48 >>, << 57, 57, 56 >>,
            Dec("", 12, 875), Dec("", 190, 500))
RowF == Row(TEST, << 2020, 12, 31, 23, 59, 59 >>, << 53, 48 >>, << 57, 56, 48 >>,
            Dec("-", 10, 375), Dec("", 0, 0))

RowPool == { RowA, RowB, RowC, RowD, RowE, RowF }

RECURSIVE SeqsUpTo(_, _)
SeqsUpTo(S, n) ==
    IF n = 0 THEN { << >> }
    ELSE LET shorter == SeqsUpTo(S, n - 1)
         IN  shorter \cup { Append(s, x) : s \in shorter, x \in S }

\* tables: the units row, then up to MaxRows data rows
CsvTables == { << UnitsRow >> \o rows : rows \in SeqsUpTo(RowPool, MaxRows) }

NamePool == { IDA, TEST }
YearPool == { 2020, 2021, 2022 }

\* ------------------------------------------------------------------ config.py

TIME_WINDOW_HOURS == 12

SND_VARS_TO_KEEP == { "Player", "Plevel", "PTemp", "PVapor", "PClw", "PRain", "PGraupel" }

IMG_VARS_TO_REMOVE ==
    { "Atm_type", "ChanSel", "SWP", "IWP", "Snow", "SWE", "SnowGS", "SIce", "SIce_MY",
      "SIce_FY", "SFR", "CldTop", "CldBase", "CldThick", "PrecipType", "RFlag", "SurfM",
      "WindSp", "WindDir", "WindU", "WindV", "Prob_SF", "quality_information" }

\* ------------------------------------------------------------------ shapely

Min2(a, b) == IF a <= b THEN a ELSE b
Max2(a, b) == IF a >= b THEN a ELSE b

\* the edges of a closed ring of <<x, y>> vertices
Edges(ring) == { << ring[i], ring[i + 1] >> : i \in 1..(Len(ring) - 1) }

\* p lies on the closed segment a-b
OnSegment(p, a, b) ==
    /\ (b[1] - a[1]) * (p[2] - a[2]) = (b[2] - a[2]) * (p[1] - a[1])
    /\ Min2(a[1], b[1]) <= p[1] /\ p[1] <= Max2(a[1], b[1])
    /\ Min2(a[2], b[2]) <= p[2] /\ p[2] <= Max2(a[2], b[2])

\* the ray from p towards +x crosses the segment a-b
RayCrosses(p, a, b) ==
    /\ (a[2] > p[2]) # (b[2] > p[2])
    /\ IF b[2] > a[2]
       THEN (p[1] - a[1]) * (b[2] - a[2]) < (p[2] - a[2]) * (b[1] - a[1])
       ELSE (p[1] - a[1]) * (b[2] - a[2]) > (p[2] - a[2]) * (b[1] - a[1])

\* Point.within(polygon): p is in the interior, the boundary excluded
Within(p, ring) ==
    /\ \A e \in Edges(ring) : ~ OnSegment(p, e[1], e[2])
    /\ Cardinality({ e \in Edges(ring) : RayCrosses(p, e[1], e[2]) }) % 2 = 1

\* ------------------------------------------------------------------ mirs.py

NC == << 46, 110, 99 >>
IMG_PREFIX == << 78, 80, 82, 45, 77, 73, 82, 83, 45, 73, 77, 71 >>
SND_PREFIX == << 78, 80, 82, 45, 77, 73, 82, 83, 45, 83, 78, 68 >>

HasAttr(ds, a) == a \in DOMAIN ds.attrs

TimeOverlaps(ds, t_behind, t_ahead) ==
    LET start == ToDatetime(ds.attrs["time_coverage_start"])
        end   == ToDatetime(ds.attrs["time_coverage_end"])
    IN  start <= t_ahead /\ end >= t_behind

\* lines 46-50: the granule's coverage lies inside [t_behind, t_ahead]
TimeContained(ds, t_behind, t_ahead) ==
    LET start == ToDatetime(ds.attrs["time_coverage_start"])
        end   == ToDatetime(ds.attrs["time_coverage_end"])
    IN  t_behind <= start /\ t_ahead >= end

DatelineIgnored(ds, require) == TRUE

\* lines 52-54: the granule passes the dateline filter
DatelinePasses(ds, require) ==
    ~ (require /\ ds.attrs["geospatial_first_scanline_first_fov_lon"] >= 0)

\* the attribute lookup that raises KeyError, in the order the code reads them
OverlapRaises(ds, t_behind, t_ahead, require) ==
    \/ ~ HasAttr(ds, "time_coverage_start")
    \/ ~ HasAttr(ds, "time_coverage_end")
    \/ /\ TimeContained(ds, t_behind, t_ahead)
       /\ \/ require /\ ~ HasAttr(ds, "geospatial_first_scanline_first_fov_lon")
          \/ /\ require => /\ HasAttr(ds, "geospatial_first_scanline_first_fov_lon")
                           /\ DatelinePasses(ds, require)
             /\ ~ HasAttr(ds, "geospatial_bounds")

_granule_overlaps_track_point(ds, lat, lon_180, t_behind, t_ahead, require) ==
    IF ~ TimeContained(ds, t_behind, t_ahead) THEN FALSE
    ELSE IF ~ DatelinePasses(ds, require) THEN FALSE
    ELSE Within(<< ParseFloat(lon_180), ParseFloat(lat) >>, ds.attrs["geospatial_bounds"])

IndicesAll == [ i \in 1..Len(track) |-> i - 1 ]
\* line 91: the positions find_mirs_files visits
Indices == IF track_indices.given THEN track_indices.idx
           ELSE [ i \in 1..Len(track) |-> i - 1 ]

\* DataFrame.iloc[i]: a position from the front (i >= 0) or from the back (i < 0)
IlocValid(df, i) == - Len(df) <= i /\ i < Len(df)
Iloc(df, i) == IF i >= 0 THEN df[i + 1] ELSE df[Len(df) + i + 1]

\* lines 101-102
TAhead(row) == row.ISO_TIME + Hours(time_window_hours)
TBehind(row) == row.ISO_TIME - Hours(time_window_hours)

\* line 90
MirsFiles == [ i \in 1..Len(mirs_dir) |-> mirs_dir[i].name ]

\* lines 115-116
RECURSIVE DescendingSeq(_)
DescendingSeq(S) ==
    IF S = {} THEN << >>
    ELSE LET m == CHOOSE x \in S : \A y \in S \ {x} : StrLess(y, x)
         IN  << m >> \o DescendingSeq(S \ {m})
PrefixDescending(S, prefix) == DescendingSeq({ f \in S : StartsWith(f, prefix) })
SortedWithPrefix(S, prefix) == SortedSeq({ f \in S : StartsWith(f, prefix) })

\* ------------------------------------------------------------------ granule inputs

\* an open xarray Dataset: global attributes, variable names, FOV positions <<lat, lon>>
Granule(attrs, data_vars, scan) ==
    [ attrs |-> attrs, data_vars |-> data_vars, Scanline |-> scan ]

Attrs(start, end, first_lon, bounds) ==
    [ a \in { "time_coverage_start", "time_coverage_end",
              "geospatial_first_scanline_first_fov_lon", "geospatial_bounds" } |->
        CASE a = "time_coverage_start" -> start
          [] a = "time_coverage_end" -> end
          [] a = "geospatial_first_scanline_first_fov_lon" -> first_lon
          [] OTHER -> bounds ]

\* the attributes without time_coverage_start
AttrsNoStart(end, first_lon, bounds) ==
    [ a \in { "time_coverage_end", "geospatial_first_scanline_first_fov_lon",
              "geospatial_bounds" } |->
        CASE a = "time_coverage_end" -> end
          [] a = "geospatial_first_scanline_first_fov_lon" -> first_lon
          [] OTHER -> bounds ]

IMG_VARS == { "Latitude", "Longitude", "TPW", "RR", "Snow", "SFR", "quality_information" }
SND_VARS == SND_VARS_TO_KEEP \cup { "Latitude", "Longitude", "ChanSel" }

\* lon -100..-80, lat 20..40
PolyBox == << << -800, 160 >>, << -640, 160 >>, << -640, 320 >>, << -800, 320 >>,
              << -800, 160 >> >>
\* the box without its north-west corner (lon < -90.25, lat > 29.25)
PolyL == << << -800, 160 >>, << -640, 160 >>, << -640, 320 >>, << -722, 320 >>,
            << -722, 234 >>, << -800, 234 >>, << -800, 160 >> >>
\* a triangle with the meridian -90.125 as its eastern edge
PolyTri == << << -721, 200 >>, << -721, 300 >>, << -800, 250 >>, << -721, 200 >> >>
\* lon 0..10, lat 0..10
PolyFar == << << 0, 0 >>, << 80, 0 >>, << 80, 80 >>, << 0, 80 >>, << 0, 0 >> >>

TExactStart == << 2021, 8, 29, 0, 0, 0 >>
TExactEnd   == << 2021, 8, 30, 0, 0, 0 >>
TEarlyStart == << 2021, 8, 28, 23, 59, 59 >>
TLateEnd    == << 2021, 8, 30, 0, 0, 1 >>
TMidStart   == << 2021, 8, 29, 7, 0, 0 >>
TMidEnd     == << 2021, 8, 29, 17, 0, 0 >>

West == - (5 * 8)
East == 5 * 8

ScanNear == << << 232, -721 >>, << 240, -700 >> >>
ScanFar  == << << 400, 80 >>, << -320, 1200 >> >>

GExactImg == Granule(Attrs(TExactStart, TExactEnd, West, PolyBox), IMG_VARS, ScanNear)
GExactSnd == Granule(Attrs(TExactStart, TExactEnd, West, PolyBox), SND_VARS, ScanNear)
GEarly    == Granule(Attrs(TEarlyStart, TMidEnd, West, PolyBox), IMG_VARS, ScanNear)
GLate     == Granule(Attrs(TMidStart, TLateEnd, West, PolyBox), SND_VARS, ScanNear)
GLon5     == Granule(Attrs(TMidStart, TMidEnd, East, PolyBox), IMG_VARS, ScanFar)
GLon0     == Granule(Attrs(TMidStart, TMidEnd, 0, PolyBox), SND_VARS, ScanFar)
GMidL     == Granule(Attrs(TMidStart, TMidEnd, West, PolyL), IMG_VARS, ScanFar)
GTri      == Granule(Attrs(TMidStart, TMidEnd, West, PolyTri), SND_VARS, ScanNear)
GFar      == Granule(Attrs(TMidStart, TMidEnd, West, PolyFar), IMG_VARS, ScanFar)
GBad      == Granule(AttrsNoStart(TMidEnd, West, PolyBox), SND_VARS, ScanNear)

TXT == << 46, 116, 120, 116 >>
OTHER_PREFIX == << 77, 73, 82, 83 >>

FileName(prefix, letter, ext) == prefix \o << 95, letter >> \o ext

File(fname, ds) == [ name |-> fname, ds |-> ds ]

FilePool ==
    { File(FileName(IMG_PREFIX, 97, NC), GExactImg),
      File(FileName(SND_PREFIX, 97, NC), GExactSnd),
      File(FileName(IMG_PREFIX, 98, NC), GEarly),
      File(FileName(SND_PREFIX, 98, NC), GLate),
      File(FileName(IMG_PREFIX, 99, NC), GLon5),
      File(FileName(SND_PREFIX, 99, NC), GLon0),
      File(FileName(IMG_PREFIX, 100, NC), GMidL),
      File(FileName(SND_PREFIX, 100, NC), GTri),
      File(FileName(IMG_PREFIX, 101, NC), GFar),
      File(FileName(SND_PREFIX, 101, NC), GBad),
      File(FileName(IMG_PREFIX, 97, TXT), GExactImg),
      File(FileName(OTHER_PREFIX, 97, NC), GMidL) }

RECURSIVE DistinctSeqsUpTo(_, _)
DistinctSeqsUpTo(S, n) ==
    IF n = 0 THEN { << >> }
    ELSE LET shorter == DistinctSeqsUpTo(S, n - 1)
         IN  shorter \cup UNION { { Append(s, x) : x \in S \ Range(s) } : s \in shorter }

\* directory listings of up to MaxFiles files, in any order
Directories == DistinctSeqsUpTo(FilePool, MaxFiles)

NotGiven == [ given |-> FALSE, idx |-> << >> ]
Given(idx) == [ given |-> TRUE, idx |-> idx ]

\* the granule of a file name in mirs_dir: xr.open_dataset(os.path.join(mirs_dir, fname))
OpenDataset(fname) == (CHOOSE f \in Range(mirs_dir) : f.name = fname).ds

\* ------------------------------------------------------------------ merged datasets

NoDs == [ set |-> FALSE, Scanline |-> << >>, data_vars |-> {} ]

RECURSIVE ConcatScan(_)
ConcatScan(list) ==
    IF list = << >> THEN << >> ELSE Head(list).Scanline \o ConcatScan(Tail(list))

\* xr.concat(list, dim="Scanline")
Concat(list) ==
    [ set |-> TRUE, Scanline |-> ConcatScan(list), data_vars |-> Head(list).data_vars ]

\* .drop_vars(names, errors="ignore")
DropVars(ds, names) == [ ds EXCEPT !.data_vars = @ \ names ]

\* ds[names]: the dimension keeps its size; the positions go with the variables
\* Latitude and Longitude unless these are among the names
Select(ds, names) ==
    [ ds EXCEPT !.data_vars = names,
                !.Scanline = IF { "Latitude", "Longitude" } \subseteq names THEN @
                             ELSE [ i \in 1..Len(@) |-> << >> ] ]

\* ------------------------------------------------------------------ output.py

Storm(n, season, records) == [ name |-> n, season |-> season, records |-> records ]
Rec(t, lat, lon) == [ iso_time |-> t, lat |-> lat, lon |-> lon ]

\* lines 40-42: ds_ibt.where(name == storm_name).where(season == storm_year), drop=True
StormSubset(ds_ibt, n, y) ==
    SelectSeq(SelectSeq(ds_ibt, LAMBDA st : st.name = n), LAMBDA st : st.season = y)

SetMin(S) == CHOOSE x \in S : \A z \in S : x <= z
SetMax(S) == CHOOSE x \in S : \A z \in S : x >= z

\* the values of a field over every record of the selected storms
Field(ds_storm, f) ==
    UNION { { IF f = "lat" THEN r.lat ELSE r.lon : r \in Range(st.records) }
            : st \in Range(ds_storm) }

NoOut == [ set |-> FALSE, Scanline |-> << >>, data_vars |-> {}, attrs |-> << >> ]

\* lines 46-51: the global attributes, rounded values in hundredths of a degree
ExtentOfGranules(ds_storm, ds_i, ds_s, n) ==
    LET pts == Range(ds_i.Scanline)
    IN  [ TC_name        |-> n,
          TC_time_start  |-> ds_storm[1].records[1].iso_time,
          TC_minimum_lat |-> Round2(SetMin({ p[1] : p \in pts })),
          TC_minimum_lon |-> Round2(SetMin({ p[2] : p \in pts })),
          TC_maximum_lat |-> Round2(SetMax({ p[1] : p \in pts })),
          TC_maximum_lon |-> Round2(SetMax({ p[2] : p \in pts })) ]
OutputAttrs(ds_storm, ds_i, ds_s, n) ==
    [ TC_name        |-> n,
      TC_time_start  |-> ds_storm[1].records[1].iso_time,
      TC_minimum_lat |-> Round2(SetMin(Field(ds_storm, "lat"))),
      TC_minimum_lon |-> Round2(SetMin(Field(ds_storm, "lon"))),
      TC_maximum_lat |-> Round2(SetMax(Field(ds_storm, "lat"))),
      TC_maximum_lon |-> Round2(SetMax(Field(ds_storm, "lon"))) ]

\* line 44: xr.merge aligns its arguments; Scanline carries no coordinate, so the
\* imagery and sounding datasets must have the same number of scanlines
MergeRaises(ds_i, ds_s) == Len(ds_i.Scanline) # Len(ds_s.Scanline)

\* xr.merge([ds_img, ds_snd, ds_storm]) with the attributes attached
build_output_dataset(ds_i, ds_s, ds_ibt, n, y) ==
    LET ds_storm == StormSubset(ds_ibt, n, y)
    IN  [ set       |-> TRUE,
          Scanline  |-> ds_i.Scanline,
          data_vars |-> ds_i.data_vars \cup ds_s.data_vars \cup { "iso_time", "lat", "lon" },
          attrs     |-> OutputAttrs(ds_storm, ds_i, ds_s, n) ]

\* line 46: .item() accepts an array of exactly one element
ItemRaises(ds_ibt, n, y) == Len(StormSubset(ds_ibt, n, y)) # 1

StormIda21 ==
    Storm(IDA, 2021, << Rec(<< 2021, 8, 26, 12, 0, 0 >>, 105, -603),
                        Rec(<< 2021, 8, 29, 12, 0, 0 >>, 232, -721),
                        Rec(<< 2021, 9, 1, 18, 0, 0 >>, 285, -704) >>)
StormIda15 ==
    Storm(IDA, 2015, << Rec(<< 2015, 9, 18, 0, 0, 0 >>, 99, -301),
                        Rec(<< 2015, 9, 27, 6, 0, 0 >>, 197, -379) >>)
StormTest20 ==
    Storm(TEST, 2020, << Rec(<< 2020, 12, 31, 23, 59, 59 >>, -83, 0) >>)
StormIda21West ==
    Storm(IDA, 2021, << Rec(<< 2021, 3, 1, 0, 0, 0 >>, -121, 1203) >>)

StormPool == { StormIda21, StormIda15, StormTest20, StormIda21West }

IbtDatasets == DistinctSeqsUpTo(StormPool, MaxStorms)

\* ------------------------------------------------------------------ control

NoErr == [ type |-> "", msg |-> "", fn |-> "" ]
Raise(type, msg, fn) == [ type |-> type, msg |-> msg, fn |-> fn ]

\* where control goes when fn returns: back into main, or out of the run
After(fn) ==
    IF entry # "main" THEN "done"
    ELSE CASE fn = "get_storm_track" -> "main_find"
           [] fn = "find_mirs_files" -> "load_and_merge_mirs"
           [] fn = "load_and_merge_mirs" -> "build_output_dataset"
           [] fn = "build_output_dataset" -> "write_output"
           [] OTHER -> "done"

RECURSIVE OpenAll(_)
OpenAll(files) ==
    IF files = << >> THEN << >>
    ELSE << OpenDataset(Head(files)) >> \o OpenAll(Tail(files))

ALL_DATA_NC == << 95, 97, 108, 108, 95, 100, 97, 116, 97, 46, 110, 99 >>

\* ------------------------------------------------------------------ initial states

NoArgv == [ name |-> << >>, year |-> 0, output |-> [ given |-> FALSE, path |-> << >> ],
            test_indices |-> NotGiven, flag |-> "" ]
NoArgs == [ name |-> << >>, year |-> 0, output |-> [ given |-> FALSE, path |-> << >> ],
            test_indices |-> NotGiven, filter_missing_wmo |-> TRUE ]

\* signed longitudes, in eighths of a degree, two turns either way
LonRange == (- 2 * FullCircle)..(2 * FullCircle)

\* the tables the matcher's tracks are loaded from
FindTables == { << UnitsRow >> \o rows : rows \in SeqsUpTo({ RowA, RowB }, MaxRows) }

\* (time_window_hours, require_east_of_dateline, track_indices)
FindOptions ==
    { << TIME_WINDOW_HOURS, TRUE, NotGiven >>,
      << TIME_WINDOW_HOURS, FALSE, NotGiven >>,
      << 6, TRUE, NotGiven >>,
      << 6, FALSE, Given(<< 0 >>) >>,
      << TIME_WINDOW_HOURS, TRUE, Given(<< 0 >>) >>,
      << TIME_WINDOW_HOURS, FALSE, Given(<< -1, 0 >>) >>,
      << TIME_WINDOW_HOURS, TRUE, Given(<< 1, 2 >>) >>,
      << TIME_WINDOW_HOURS, TRUE, Given(<< >>) >> }

\* the file names of a directory that start with a prefix and end in .nc
NamesWith(dir, prefix) ==
    { f.name : f \in { g \in Range(dir) : StartsWith(g.name, prefix) /\ EndsWith(g.name, NC) } }

\* the directories, tables and track datasets of the command line runs
MainFiles == { f \in FilePool : f.ds \in { GExactImg, GExactSnd, GLon5, GBad } }
MainDirectories == DistinctSeqsUpTo(MainFiles, MaxFiles)
MainTables == { << UnitsRow >> \o rows : rows \in SeqsUpTo({ RowA, RowC, RowF }, MaxRows) }
MainIbt == { << StormIda21 >>, << StormIda15, StormTest20 >> }
OUT_NC == << 111, 46, 110, 99 >>
ArgvPool ==
    { [ name |-> n, year |-> y, output |-> o, test_indices |-> t, flag |-> f ] :
        n \in { ida, TEST }, y \in { 2020, 2021 },
        o \in { [ given |-> FALSE, path |-> << >> ], [ given |-> TRUE, path |-> OUT_NC ] },
        t \in { NotGiven, Given(<< 0 >>), Given(<< -1 >>) },
        f \in { "", "--filter-missing-wmo", "--no-filter-missing-wmo" } }

\* merged datasets handed to build_output_dataset
MergedImg == { DropVars(Concat(l), IMG_VARS_TO_REMOVE) : l \in { << GExactImg >>, << GExactImg, GFar >> } }
MergedSnd == { Select(Concat(l), SND_VARS_TO_KEEP) : l \in { << GExactSnd >>, << GLon0, GTri >> } }

\* _lon_to_360 is applied to a signed longitude
InitLon ==
    \E d \in LonRange :
        /\ entry = "_lon_to_360"
        /\ pc = "_lon_to_360"
        /\ err = NoErr
        /\ returned = {}
        /\ argv = NoArgv
        /\ args = NoArgs
        /\ output_file = << >>
        /\ name = << >>
        /\ year = 0
        /\ ibtracs_csv = << UnitsRow >>
        /\ filter_missing_wmo = TRUE
        /\ track = << >>
        /\ mirs_dir = << >>
        /\ time_window_hours = TIME_WINDOW_HOURS
        /\ require_east_of_dateline = TRUE
        /\ track_indices = NotGiven
        /\ ipos = 1
        /\ fpos = 1
        /\ matched = {}
        /\ handles = << >>
        /\ img_files = << >>
        /\ snd_files = << >>
        /\ ds_img = NoDs
        /\ ds_snd = NoDs
        /\ ibt_nc = << >>
        /\ ds_out = NoOut
        /\ written = {}
        /\ dlon = d
        /\ lon360 = 0

\* get_storm_track is called on a table
InitTrack ==
    \E n \in NamePool, y \in YearPool, csv \in CsvTables, filt \in BOOLEAN :
        /\ entry = "get_storm_track"
        /\ pc = "get_storm_track"
        /\ err = NoErr
        /\ returned = {}
        /\ argv = NoArgv
        /\ args = NoArgs
        /\ output_file = << >>
        /\ name = n
        /\ year = y
        /\ ibtracs_csv = csv
        /\ filter_missing_wmo = filt
        /\ track = << >>
        /\ mirs_dir = << >>
        /\ time_window_hours = TIME_WINDOW_HOURS
        /\ require_east_of_dateline = TRUE
        /\ track_indices = NotGiven
        /\ ipos = 1
        /\ fpos = 1
        /\ matched = {}
        /\ handles = << >>
        /\ img_files = << >>
        /\ snd_files = << >>
        /\ ds_img = NoDs
        /\ ds_snd = NoDs
        /\ ibt_nc = << >>
        /\ ds_out = NoOut
        /\ written = {}
        /\ dlon = 0
        /\ lon360 = 0

\* find_mirs_files is called on a loaded track and a directory
InitFind ==
    \E csv \in FindTables, dir \in Directories, opt \in FindOptions :
        /\ entry = "find_mirs_files"
        /\ pc = "find_mirs_files"
        /\ err = NoErr
        /\ returned = { "get_storm_track" }
        /\ argv = NoArgv
        /\ args = NoArgs
        /\ output_file = << >>
        /\ name = IDA
        /\ year = 2021
        /\ ibtracs_csv = csv
        /\ filter_missing_wmo = FALSE
        /\ track = get_storm_track(IDA, 2021, csv, FALSE)
        /\ mirs_dir = dir
        /\ time_window_hours = opt[1]
        /\ require_east_of_dateline = opt[2]
        /\ track_indices = opt[3]
        /\ ipos = 1
        /\ fpos = 1
        /\ matched = {}
        /\ handles = << >>
        /\ img_files = << >>
        /\ snd_files = << >>
        /\ ds_img = NoDs
        /\ ds_snd = NoDs
        /\ ibt_nc = << >>
        /\ ds_out = NoOut
        /\ written = {}
        /\ dlon = 0
        /\ lon360 = 0

\* load_and_merge_mirs is called on file names of a directory
InitMerge ==
    \E dir \in Directories, wrong \in BOOLEAN :
    \E img \in DistinctSeqsUpTo(NamesWith(dir, IMG_PREFIX), MaxFiles),
       snd \in DistinctSeqsUpTo(NamesWith(dir, IF wrong THEN IMG_PREFIX ELSE SND_PREFIX), 1) :
        /\ entry = "load_and_merge_mirs"
        /\ pc = "load_and_merge_mirs"
        /\ err = NoErr
        /\ returned = {}
        /\ argv = NoArgv
        /\ args = NoArgs
        /\ output_file = << >>
        /\ name = << >>
        /\ year = 0
        /\ ibtracs_csv = << UnitsRow >>
        /\ filter_missing_wmo = TRUE
        /\ track = << >>
        /\ mirs_dir = dir
        /\ time_window_hours = TIME_WINDOW_HOURS
        /\ require_east_of_dateline = TRUE
        /\ track_indices = NotGiven
        /\ ipos = 1
        /\ fpos = 1
        /\ matched = {}
        /\ handles = << >>
        /\ img_files = img
        /\ snd_files = snd
        /\ ds_img = NoDs
        /\ ds_snd = NoDs
        /\ ibt_nc = << >>
        /\ ds_out = NoOut
        /\ written = {}
        /\ dlon = 0
        /\ lon360 = 0

\* build_output_dataset is called on merged datasets and a track dataset
InitBuild ==
    \E i \in MergedImg, s \in MergedSnd, ibt \in IbtDatasets, n \in NamePool, y \in { 2015, 2020, 2021 } :
        /\ entry = "build_output_dataset"
        /\ pc = "build_output_dataset"
        /\ err = NoErr
        /\ returned = {}
        /\ argv = NoArgv
        /\ args = NoArgs
        /\ output_file = << >>
        /\ name = n
        /\ year = y
        /\ ibtracs_csv = << UnitsRow >>
        /\ filter_missing_wmo = TRUE
        /\ track = << >>
        /\ mirs_dir = << >>
        /\ time_window_hours = TIME_WINDOW_HOURS
        /\ require_east_of_dateline = TRUE
        /\ track_indices = NotGiven
        /\ ipos = 1
        /\ fpos = 1
        /\ matched = {}
        /\ handles = << >>
        /\ img_files = << >>
        /\ snd_files = << >>
        /\ ds_img = i
        /\ ds_snd = s
        /\ ibt_nc = ibt
        /\ ds_out = NoOut
        /\ written = {}
        /\ dlon = 0
        /\ lon360 = 0

\* the command line entry point
InitMain ==
    \E a \in ArgvPool, csv \in MainTables, dir \in MainDirectories, ibt \in MainIbt :
        /\ entry = "main"
        /\ pc = "parse_args"
        /\ err = NoErr
        /\ returned = {}
        /\ argv = a
        /\ args = NoArgs
        /\ output_file = << >>
        /\ name = << >>
        /\ year = 0
        /\ ibtracs_csv = csv
        /\ filter_missing_wmo = TRUE
        /\ track = << >>
        /\ mirs_dir = dir
        /\ time_window_hours = TIME_WINDOW_HOURS
        /\ require_east_of_dateline = TRUE
        /\ track_indices = NotGiven
        /\ ipos = 1
        /\ fpos = 1
        /\ matched = {}
        /\ handles = << >>
        /\ img_files = << >>
        /\ snd_files = << >>
        /\ ds_img = NoDs
        /\ ds_snd = NoDs
        /\ ibt_nc = ibt
        /\ ds_out = NoOut
        /\ written = {}
        /\ dlon = 0
        /\ lon360 = 0



\* lines 151-154 of mirs.py

MergeRejectsNeither(img, snd) == img = << >> /\ snd = << >>
MergeRejects(img, snd) == img = << >> \/ snd = << >>

\* ------------------------------------------------------------------ cli.py

\* lines 59-64: --filter-missing-wmo / --no-filter-missing-wmo, default True
ParseToggle(flag) == flag # "--no-filter-missing-wmo"

FilterWmoIgnoresToggle(a) == a.year # 2021
\* line 75: filter_wmo
FilterWmo(a) == a.filter_missing_wmo /\ a.year # 2021

\* ------------------------------------------------------------------ actions

\* ibtracs.py lines 14-16
LonTo360 ==
    /\ pc = "_lon_to_360"
    /\ lon360' = _lon_to_360(dlon)
    /\ returned' = returned \cup { "_lon_to_360" }
    /\ pc' = "done"
    /\ UNCHANGED << entry, err, argv, args, output_file, name, year, ibtracs_csv,
                 filter_missing_wmo, track, mirs_dir, time_window_hours,
                 require_east_of_dateline, track_indices, ipos, fpos, matched, handles,
                 img_files, snd_files, ds_img, ds_snd, ibt_nc, ds_out, written, dlon >>

\* cli.py lines 25-65
ParseArgs ==
    /\ pc = "parse_args"
    /\ args' = [ name               |-> argv.name,
                 year               |-> argv.year,
                 output             |-> argv.output,
                 test_indices       |-> argv.test_indices,
                 filter_missing_wmo |-> ParseToggle(argv.flag) ]
    /\ pc' = "main"
    /\ UNCHANGED << entry, err, returned, argv, output_file, name, year, ibtracs_csv,
                 filter_missing_wmo, track, mirs_dir, time_window_hours,
                 require_east_of_dateline, track_indices, ipos, fpos, matched, handles,
                 img_files, snd_files, ds_img, ds_snd, ibt_nc, ds_out, written, dlon, lon360 >>

\* cli.py lines 68-83: main up to the call of get_storm_track
Main ==
    /\ pc = "main"
    /\ name' = Upper(args.name)
    /\ year' = args.year
    /\ output_file' = IF args.output.given /\ args.output.path # << >>
                      THEN args.output.path
                      ELSE Upper(args.name) \o << 95 >> \o Digits(args.year) \o ALL_DATA_NC
    /\ filter_missing_wmo' = FilterWmo(args)
    /\ pc' = "get_storm_track"
    /\ UNCHANGED << entry, err, returned, argv, args, ibtracs_csv, track, mirs_dir,
                 time_window_hours, require_east_of_dateline, track_indices, ipos, fpos,
                 matched, handles, img_files, snd_files, ds_img, ds_snd, ibt_nc, ds_out,
                 written, dlon, lon360 >>

\* ibtracs.py lines 19-76
GetStormTrack ==
    /\ pc = "get_storm_track"
    /\ track' = get_storm_track(name, year, ibtracs_csv, filter_missing_wmo)
    /\ returned' = returned \cup { "get_storm_track" }
    /\ pc' = After("get_storm_track")
    /\ UNCHANGED << entry, err, argv, args, output_file, name, year, ibtracs_csv,
                 filter_missing_wmo, mirs_dir, time_window_hours, require_east_of_dateline,
                 track_indices, ipos, fpos, matched, handles, img_files, snd_files, ds_img,
                 ds_snd, ibt_nc, ds_out, written, dlon, lon360 >>

\* cli.py lines 84-91: find_mirs_files is called with its defaults
MainCallFind ==
    /\ pc = "main_find"
    /\ time_window_hours' = TIME_WINDOW_HOURS
    /\ require_east_of_dateline' = TRUE
    /\ track_indices' = args.test_indices
    /\ pc' = "find_mirs_files"
    /\ UNCHANGED << entry, err, returned, argv, args, output_file, name, year, ibtracs_csv,
                 filter_missing_wmo, track, mirs_dir, ipos, fpos, matched, handles, img_files,
                 snd_files, ds_img, ds_snd, ibt_nc, ds_out, written, dlon, lon360 >>

\* mirs.py lines 90-92
FindStart ==
    /\ pc = "find_mirs_files"
    /\ matched' = {}
    /\ ipos' = 1
    /\ fpos' = 1
    /\ pc' = "find_point"
    /\ UNCHANGED << entry, err, returned, argv, args, output_file, name, year, ibtracs_csv,
                 filter_missing_wmo, track, mirs_dir, time_window_hours,
                 require_east_of_dateline, track_indices, handles, img_files, snd_files,
                 ds_img, ds_snd, ibt_nc, ds_out, written, dlon, lon360 >>

\* mirs.py lines 94-102: the next track point; iloc raises on a position out of range
FindPoint ==
    /\ pc = "find_point"
    /\ ipos <= Len(Indices)
    /\ IF IlocValid(track, Indices[ipos])
       THEN /\ fpos' = 1
            /\ pc' = "find_file"
            /\ err' = err
       ELSE /\ err' = Raise("IndexError", "single positional indexer is out-of-bounds",
                            "find_mirs_files")
            /\ pc' = "raised"
            /\ fpos' = fpos
    /\ UNCHANGED << entry, returned, argv, args, output_file, name, year, ibtracs_csv,
                 filter_missing_wmo, track, mirs_dir, time_window_hours,
                 require_east_of_dateline, track_indices, ipos, matched, handles, img_files,
                 snd_files, ds_img, ds_snd, ibt_nc, ds_out, written, dlon, lon360 >>

\* mirs.py lines 104-106: a name without the .nc extension
FindSkip ==
    /\ pc = "find_file"
    /\ fpos <= Len(MirsFiles)
    /\ ~ EndsWith(MirsFiles[fpos], NC)
    /\ fpos' = fpos + 1
    /\ UNCHANGED << entry, pc, err, returned, argv, args, output_file, name, year, ibtracs_csv,
                 filter_missing_wmo, track, mirs_dir, time_window_hours,
                 require_east_of_dateline, track_indices, ipos, matched, handles, img_files,
                 snd_files, ds_img, ds_snd, ibt_nc, ds_out, written, dlon, lon360 >>

\* mirs.py lines 107-108
FindOpen ==
    /\ pc = "find_file"
    /\ fpos <= Len(MirsFiles)
    /\ EndsWith(MirsFiles[fpos], NC)
    /\ handles' = Append(handles, MirsFiles[fpos])
    /\ pc' = "find_check"
    /\ UNCHANGED << entry, err, returned, argv, args, output_file, name, year, ibtracs_csv,
                 filter_missing_wmo, track, mirs_dir, time_window_hours,
                 require_east_of_dateline, track_indices, ipos, fpos, matched, img_files,
                 snd_files, ds_img, ds_snd, ibt_nc, ds_out, written, dlon, lon360 >>

\* mirs.py lines 109-113: the overlap test, then ds.close()
FindCheck ==
    /\ pc = "find_check"
    /\ LET fname == MirsFiles[fpos]
           ds    == OpenDataset(fname)
           row   == Iloc(track, Indices[ipos])
       IN  IF OverlapRaises(ds, TBehind(row), TAhead(row), require_east_of_dateline)
           THEN /\ err' = Raise("KeyError", "attrs", "find_mirs_files")
                /\ pc' = "raised"
                /\ UNCHANGED << matched, handles, fpos >>
           ELSE /\ matched' =
                     IF _granule_overlaps_track_point(ds, row.LAT, row.LON_180, TBehind(row),
                                                      TAhead(row), require_east_of_dateline)
                     THEN matched \cup { fname } ELSE matched
                /\ handles' = SubSeq(handles, 1, Len(handles) - 1)
                /\ fpos' = fpos + 1
                /\ pc' = "find_file"
                /\ err' = err
    /\ UNCHANGED << entry, returned, argv, args, output_file, name, year, ibtracs_csv,
                 filter_missing_wmo, track, mirs_dir, time_window_hours,
                 require_east_of_dateline, track_indices, ipos, img_files, snd_files, ds_img,
                 ds_snd, ibt_nc, ds_out, written, dlon, lon360 >>

\* mirs.py line 94: the directory is exhausted for this track point
FindNextPoint ==
    /\ pc = "find_file"
    /\ fpos > Len(MirsFiles)
    /\ ipos' = ipos + 1
    /\ pc' = "find_point"
    /\ UNCHANGED << entry, err, returned, argv, args, output_file, name, year, ibtracs_csv,
                 filter_missing_wmo, track, mirs_dir, time_window_hours,
                 require_east_of_dateline, track_indices, fpos, matched, handles, img_files,
                 snd_files, ds_img, ds_snd, ibt_nc, ds_out, written, dlon, lon360 >>

\* mirs.py lines 115-117
FindReturn ==
    /\ pc = "find_point"
    /\ ipos > Len(Indices)
    /\ img_files' = SortedWithPrefix(matched, IMG_PREFIX)
    /\ snd_files' = SortedWithPrefix(matched, SND_PREFIX)
    /\ returned' = returned \cup { "find_mirs_files" }
    /\ pc' = After("find_mirs_files")
    /\ UNCHANGED << entry, err, argv, args, output_file, name, year, ibtracs_csv,
                 filter_missing_wmo, track, mirs_dir, time_window_hours,
                 require_east_of_dateline, track_indices, ipos, fpos, matched, handles, ds_img,
                 ds_snd, ibt_nc, ds_out, written, dlon, lon360 >>

\* mirs.py lines 151-154
MergeCheck ==
    /\ pc = "load_and_merge_mirs"
    /\ IF MergeRejects(img_files, snd_files)
       THEN /\ err' = Raise("ValueError",
                            IF img_files = << >> THEN "No MIRS IMG files provided."
                            ELSE "No MIRS SND files provided.", "load_and_merge_mirs")
            /\ pc' = "raised"
            /\ fpos' = fpos
       ELSE /\ fpos' = 1
            /\ pc' = "merge_img"
            /\ err' = err
    /\ UNCHANGED << entry, returned, argv, args, output_file, name, year, ibtracs_csv,
                 filter_missing_wmo, track, mirs_dir, time_window_hours,
                 require_east_of_dateline, track_indices, ipos, matched, handles, img_files,
                 snd_files, ds_img, ds_snd, ibt_nc, ds_out, written, dlon, lon360 >>

\* mirs.py line 156: the comprehension opens the next imagery file
MergeOpenImg ==
    /\ pc = "merge_img"
    /\ fpos <= Len(img_files)
    /\ handles' = Append(handles, img_files[fpos])
    /\ fpos' = fpos + 1
    /\ UNCHANGED << entry, pc, err, returned, argv, args, output_file, name, year, ibtracs_csv,
                 filter_missing_wmo, track, mirs_dir, time_window_hours,
                 require_east_of_dateline, track_indices, ipos, matched, img_files, snd_files,
                 ds_img, ds_snd, ibt_nc, ds_out, written, dlon, lon360 >>

\* mirs.py lines 157-159
MergeConcatImg ==
    /\ pc = "merge_img"
    /\ fpos > Len(img_files)
    /\ ds_img' = DropVars(Concat(OpenAll(img_files)), IMG_VARS_TO_REMOVE)
    /\ fpos' = 1
    /\ pc' = "merge_snd"
    /\ UNCHANGED << entry, err, returned, argv, args, output_file, name, year, ibtracs_csv,
                 filter_missing_wmo, track, mirs_dir, time_window_hours,
                 require_east_of_dateline, track_indices, ipos, matched, handles, img_files,
                 snd_files, ds_snd, ibt_nc, ds_out, written, dlon, lon360 >>

\* mirs.py line 161: the comprehension opens the next sounding file
MergeOpenSnd ==
    /\ pc = "merge_snd"
    /\ fpos <= Len(snd_files)
    /\ handles' = Append(handles, snd_files[fpos])
    /\ fpos' = fpos + 1
    /\ UNCHANGED << entry, pc, err, returned, argv, args, output_file, name, year, ibtracs_csv,
                 filter_missing_wmo, track, mirs_dir, time_window_hours,
                 require_east_of_dateline, track_indices, ipos, matched, img_files, snd_files,
                 ds_img, ds_snd, ibt_nc, ds_out, written, dlon, lon360 >>

\* mirs.py lines 162-164: a variable to keep that the granules lack is a KeyError
MergeConcatSnd ==
    /\ pc = "merge_snd"
    /\ fpos > Len(snd_files)
    /\ LET ds == Concat(OpenAll(snd_files))
       IN  IF SND_VARS_TO_KEEP \subseteq ds.data_vars
           THEN /\ ds_snd' = Select(ds, SND_VARS_TO_KEEP)
                /\ returned' = returned \cup { "load_and_merge_mirs" }
                /\ pc' = After("load_and_merge_mirs")
                /\ err' = err
           ELSE /\ err' = Raise("KeyError", "data_vars", "load_and_merge_mirs")
                /\ pc' = "raised"
                /\ UNCHANGED << ds_snd, returned >>
    /\ UNCHANGED << entry, argv, args, output_file, name, year, ibtracs_csv, filter_missing_wmo,
                 track, mirs_dir, time_window_hours, require_east_of_dateline, track_indices,
                 ipos, fpos, matched, handles, img_files, snd_files, ds_img, ibt_nc, ds_out,
                 written, dlon, lon360 >>

\* output.py lines 14-53 (cli.py lines 98-99)
BuildOutputDataset ==
    /\ pc = "build_output_dataset"
    /\ IF MergeRaises(ds_img, ds_snd) \/ ItemRaises(ibt_nc, name, year)
       THEN /\ err' = Raise("ValueError",
                            IF MergeRaises(ds_img, ds_snd)
                            THEN "conflicting sizes for dimension Scanline"
                            ELSE "can only convert an array of size 1",
                            "build_output_dataset")
            /\ pc' = "raised"
            /\ UNCHANGED << ds_out, returned >>
       ELSE /\ ds_out' = build_output_dataset(ds_img, ds_snd, ibt_nc, name, year)
            /\ returned' = returned \cup { "build_output_dataset" }
            /\ pc' = After("build_output_dataset")
            /\ err' = err
    /\ UNCHANGED << entry, argv, args, output_file, name, year, ibtracs_csv, filter_missing_wmo,
                 track, mirs_dir, time_window_hours, require_east_of_dateline, track_indices,
                 ipos, fpos, matched, handles, img_files, snd_files, ds_img, ds_snd, ibt_nc,
                 written, dlon, lon360 >>

\* output.py lines 56-67 (cli.py line 101)
WriteOutput ==
    /\ pc = "write_output"
    /\ written' = written \cup { [ path |-> output_file, attrs |-> ds_out.attrs ] }
    /\ returned' = returned \cup { "write_output" }
    /\ pc' = "done"
    /\ UNCHANGED << entry, err, argv, args, output_file, name, year, ibtracs_csv,
                 filter_missing_wmo, track, mirs_dir, time_window_hours,
                 require_east_of_dateline, track_indices, ipos, fpos, matched, handles,
                 img_files, snd_files, ds_img, ds_snd, ibt_nc, ds_out, dlon, lon360 >>

\* ------------------------------------------------------------------ specifications

FindSteps ==
    \/ FindStart \/ FindPoint \/ FindSkip \/ FindOpen \/ FindCheck
    \/ FindNextPoint \/ FindReturn

MergeSteps ==
    \/ MergeCheck \/ MergeOpenImg \/ MergeConcatImg \/ MergeOpenSnd \/ MergeConcatSnd

NextTrack == LonTo360 \/ GetStormTrack
NextFind == FindSteps
NextMerge == MergeSteps
NextBuild == BuildOutputDataset
NextMain ==
    \/ ParseArgs \/ Main \/ GetStormTrack \/ MainCallFind \/ FindSteps \/ MergeSteps
    \/ BuildOutputDataset \/ WriteOutput

SpecTrack == (InitLon \/ InitTrack) /\ [][NextTrack]_vars
SpecFind == InitFind /\ [][NextFind]_vars
SpecMerge == InitMerge /\ [][NextMerge]_vars
SpecBuild == InitBuild /\ [][NextBuild]_vars
SpecMain == InitMain /\ [][NextMain]_vars

\* ------------------------------------------------------------------ properties

Returned(fn) == fn \in returned

\* the track rows a completed scan has visited
ScannedRows == { Iloc(track, Indices[k]) : k \in 1..Len(Indices) }

\* the granule's declared coverage lies inside [t - W, t + W], bounds included
CoverageInsideWindow(ds, row) ==
    LET start == ToDatetime(ds.attrs["time_coverage_start"])
        end   == ToDatetime(ds.attrs["time_coverage_end"])
        W     == time_window_hours * 3600
    IN  row.ISO_TIME - W <= start /\ end <= row.ISO_TIME + W

FirstLon(ds) == ds.attrs["geospatial_first_scanline_first_fov_lon"]

PointInPolygon(ds, row) ==
    Within(<< ParseFloat(row.LON_180), ParseFloat(row.LAT) >>, ds.attrs["geospatial_bounds"])

\* the granule passes every applicable test for the track point
PassesFor(ds, row) ==
    /\ CoverageInsideWindow(ds, row)
    /\ require_east_of_dateline => FirstLon(ds) < 0
    /\ PointInPolygon(ds, row)

\* the file names of the directory with the extension, the prefix and a passing point
Expected(prefix) ==
    { f.name : f \in { g \in Range(mirs_dir) :
                         /\ EndsWith(g.name, NC)
                         /\ StartsWith(g.name, prefix)
                         /\ \E row \in ScannedRows : PassesFor(g.ds, row) } }

StrictlyAscending(list) ==
    \A i \in 1..Len(list) : \A j \in 1..Len(list) : i < j => StrLess(list[i], list[j])

\* C1: when find_mirs_files returns, img_files (snd_files) holds exactly the names
\* of the directory that end in .nc, start with the imagery (sounding) prefix and
\* pass the time, dateline and polygon tests for at least one scanned track point,
\* in ascending lexical order and without repetition.
C1_MatchedExactlySorted ==
    Returned("find_mirs_files") =>
        /\ Range(img_files) = Expected(IMG_PREFIX)
        /\ Range(snd_files) = Expected(SND_PREFIX)
        /\ StrictlyAscending(img_files)
        /\ StrictlyAscending(snd_files)

\* two imagery files listed out of order are returned in order, one of them
\* matched by two track points
C1_Witness ==
    /\ Returned("find_mirs_files")
    /\ Len(img_files) = 2
    /\ StrLess(MirsFiles[2], MirsFiles[1])
    /\ \E g \in Range(mirs_dir) :
          /\ g.name \in Range(img_files)
          /\ \E k1, k2 \in 1..Len(Indices) :
                /\ Iloc(track, Indices[k1]) # Iloc(track, Indices[k2])
                /\ PassesFor(g.ds, Iloc(track, Indices[k1]))
                /\ PassesFor(g.ds, Iloc(track, Indices[k2]))

\* C2: a granule is added to the match set for a track point only when its
\* coverage lies inside [t - W, t + W], bounds included; a granule that starts one
\* second before t - W or ends one second after t + W is not added for that point.
C2_TimeContainment ==
    [][ pc = "find_check" =>
          LET ds    == OpenDataset(MirsFiles[fpos])
              row   == Iloc(track, Indices[ipos])
              W     == time_window_hours * 3600
          IN  /\ matched' # matched => CoverageInsideWindow(ds, row)
              /\ ( /\ HasAttr(ds, "time_coverage_start")
                   /\ \/ ToDatetime(ds.attrs["time_coverage_start"]) = row.ISO_TIME - W - 1
                      \/ ToDatetime(ds.attrs["time_coverage_end"]) = row.ISO_TIME + W + 1 )
                 => matched' = matched ]_vars

\* a granule covering exactly [t - W, t + W] was matched; one starting a second
\* earlier, with the same polygon and first-scan longitude, was not
C2_Witness ==
    /\ Returned("find_mirs_files")
    /\ \E row \in ScannedRows : \E g, h \in Range(mirs_dir) :
          /\ ScannedRows = { row }
          /\ ToDatetime(g.ds.attrs["time_coverage_start"])
               = row.ISO_TIME - time_window_hours * 3600
          /\ ToDatetime(g.ds.attrs["time_coverage_end"])
               = row.ISO_TIME + time_window_hours * 3600
          /\ g.name \in Range(img_files)
          /\ HasAttr(h.ds, "time_coverage_start")
          /\ ToDatetime(h.ds.attrs["time_coverage_start"])
               = row.ISO_TIME - time_window_hours * 3600 - 1
          /\ ToDatetime(h.ds.attrs["time_coverage_end"]) >= row.ISO_TIME
          /\ PointInPolygon(h.ds, row)
          /\ FirstLon(h.ds) < 0
          /\ StartsWith(h.name, IMG_PREFIX) /\ EndsWith(h.name, NC)
          /\ h.name \notin Range(img_files)

\* C3: with the dateline option enabled no returned granule has a first-scan
\* longitude >= 0; with it disabled the longitude plays no part: every .nc file
\* with a prefix that passes the time and polygon tests for a scanned point is
\* returned.
C3_DatelineFilter ==
    Returned("find_mirs_files") =>
        LET out == Range(img_files) \cup Range(snd_files)
        IN  /\ require_east_of_dateline =>
                \A g \in Range(mirs_dir) : g.name \in out => FirstLon(g.ds) < 0
            /\ ~ require_east_of_dateline =>
                \A g \in Range(mirs_dir) :
                    ( /\ EndsWith(g.name, NC)
                      /\ StartsWith(g.name, IMG_PREFIX) \/ StartsWith(g.name, SND_PREFIX)
                      /\ \E row \in ScannedRows :
                            CoverageInsideWindow(g.ds, row) /\ PointInPolygon(g.ds, row) )
                    => g.name \in out

\* with the option disabled, granules with first-scan longitude 5.0 and 0 are returned
C3_Witness ==
    /\ Returned("find_mirs_files")
    /\ ~ require_east_of_dateline
    /\ \E g \in Range(mirs_dir) : FirstLon(g.ds) = 5 * 8 /\ g.name \in Range(img_files)
    /\ \E g \in Range(mirs_dir) : FirstLon(g.ds) = 0 /\ g.name \in Range(snd_files)

\* C4: load_and_merge_mirs raises its ValueError exactly when a file list is
\* empty, with no granule file opened and no merged dataset produced.
C4_EmptyListRejected ==
    (entry = "load_and_merge_mirs" /\ pc # "load_and_merge_mirs") =>
        LET rejected == /\ pc = "raised"
                        /\ err.type = "ValueError"
                        /\ err.fn = "load_and_merge_mirs"
        IN  /\ (img_files = << >> \/ snd_files = << >>) <=> rejected
            /\ rejected => /\ handles = << >>
                           /\ ds_img = NoDs /\ ds_snd = NoDs
                           /\ ~ Returned("load_and_merge_mirs")

\* imagery names were given, no sounding names: the call raised
C4_Witness ==
    /\ entry = "load_and_merge_mirs"
    /\ pc = "raised"
    /\ img_files # << >> /\ snd_files = << >>
    /\ err = Raise("ValueError", "No MIRS SND files provided.", "load_and_merge_mirs")

\* the data rows of the table a call of get_storm_track must keep: the name is the
\* requested one, the timestamp is of the requested calendar year, and under the
\* filter neither the wind nor the pressure cell is blank
QualifyingRows ==
    { i \in 2..Len(ibtracs_csv) :
        /\ ibtracs_csv[i].NAME = name
        /\ ibtracs_csv[i].ISO_TIME[1] = year
        /\ filter_missing_wmo => /\ ibtracs_csv[i].WMO_WIND # Blank
                                 /\ ibtracs_csv[i].WMO_PRES # Blank }

\* C5: get_storm_track returns, in table order, exactly the data rows with the
\* requested name, a timestamp in [year-01-01, (year+1)-01-01) and, under the
\* missing-field filter, non-blank wind and pressure.
C5_TrackRowsExact ==
    (entry = "get_storm_track" /\ Returned("get_storm_track")) =>
        [ k \in 1..Len(track) |-> track[k].index + 1 ] = Ascending(QualifyingRows)

\* year 2021 without the filter: the row of 2021-12-31T23:59:59 with a blank wind
\* is kept, the row of 2022-01-01T00:00:00 is dropped
C5_Witness ==
    /\ entry = "get_storm_track" /\ Returned("get_storm_track")
    /\ name = IDA /\ year = 2021 /\ ~ filter_missing_wmo
    /\ ibtracs_csv = << UnitsRow, RowD, RowC >>
    /\ Len(track) = 1
    /\ track[1].index = 2
    /\ track[1].WMO_WIND = Blank
    /\ track[1].ISO_TIME = YearStart(2022) - 1

\* C6: _lon_to_360(L) lies in [0, 360) and is congruent to L modulo 360; a returned
\* row holds the table's longitude unchanged in LON_180 and its normalization in LON.
C6_LongitudeNormalized ==
    /\ Returned("_lon_to_360") =>
          /\ 0 <= lon360 /\ lon360 < FullCircle
          /\ (lon360 - dlon) % FullCircle = 0
    /\ (entry = "get_storm_track" /\ Returned("get_storm_track")) =>
          \A k \in 1..Len(track) :
              LET src == ibtracs_csv[track[k].index + 1]
              IN  /\ track[k].LON_180 = src.LON
                  /\ 0 <= track[k].LON /\ track[k].LON < FullCircle
                  /\ (track[k].LON - ParseFloat(src.LON)) % FullCircle = 0

\* -90.125 degrees normalizes to 269.875
C6_Witness ==
    /\ Returned("_lon_to_360")
    /\ dlon = - (90 * 8 + 1)
    /\ lon360 = 269 * 8 + 7

\* a command line run whose track loader has returned no row
EmptyTrackRun == entry = "main" /\ Returned("get_storm_track") /\ track = << >>

MergerRejection ==
    Raise("ValueError", "No MIRS IMG files provided.", "load_and_merge_mirs")

\* C7 as stated: in a run without a matching track row, whatever the index list,
\* the matcher returns two empty lists, the only failure is the merger's
\* empty-list error, and nothing is written.
C7_EmptyTrackFailsAtMerger ==
    EmptyTrackRun =>
        /\ pc = "raised" => err = MergerRejection
        /\ Returned("find_mirs_files") => img_files = << >> /\ snd_files = << >>
        /\ pc # "done"
        /\ written = {}

\* C7 amended: without a track-row index list the run fails at the merger's
\* empty-list check after the matcher returned two empty lists; with an index list
\* the matcher raises an index error on its first index; no granule file is
\* opened and no artifact is written either way.
C7_EmptyTrackFailure ==
    EmptyTrackRun =>
        /\ ~ args.test_indices.given =>
              /\ pc = "raised" => err = MergerRejection
              /\ Returned("find_mirs_files") => img_files = << >> /\ snd_files = << >>
        /\ args.test_indices.given =>
              /\ pc = "raised" =>
                    err.type = "IndexError" /\ err.fn = "find_mirs_files" /\ ipos = 1
              /\ ~ Returned("find_mirs_files")
        /\ pc \in { "main_find", "find_mirs_files", "find_point", "load_and_merge_mirs",
                    "raised" }
        /\ handles = << >>
        /\ written = {}

\* no index list, a directory with granules, no track row: the merger rejected
C7_Witness ==
    /\ EmptyTrackRun
    /\ ~ args.test_indices.given
    /\ mirs_dir # << >>
    /\ Returned("find_mirs_files")
    /\ pc = "raised"
    /\ err = MergerRejection

\* C8 as stated: at most one granule file is open at any moment, and none is open
\* once the operation has returned or raised.
C8_HandlesScoped ==
    /\ Len(handles) <= 1
    /\ pc \in { "done", "raised" } => handles = << >>

\* r is round(x, 2) in hundredths for x = k eighths: the nearest hundredth, the
\* even one on a tie
IsRounded(k, r) ==
    /\ 2 * r - 25 * k \in { -1, 0, 1 }
    /\ 2 * r # 25 * k => r % 2 = 0

\* the track records selected by storm name and year
SelectedStorms == { st \in Range(ibt_nc) : st.name = name /\ st.season = year }
SelectedLat == UNION { { r.lat : r \in Range(st.records) } : st \in SelectedStorms }
SelectedLon == UNION { { r.lon : r \in Range(st.records) } : st \in SelectedStorms }

\* C9: the bounding-box attributes of the built dataset are the rounded minimum
\* and maximum of lat and lon over the track records selected by name and year,
\* whatever the merged granule data cover; TC_name is the storm name and
\* TC_time_start the timestamp of the first selected record.
C9_BoundingBoxOfTrack ==
    (entry = "build_output_dataset" /\ Returned("build_output_dataset")) =>
        /\ Cardinality(SelectedStorms) = 1
        /\ Len(ds_img.Scanline) = Len(ds_snd.Scanline)
        /\ ds_out.attrs.TC_name = name
        /\ \A st \in SelectedStorms : ds_out.attrs.TC_time_start = st.records[1].iso_time
        /\ \E lo \in SelectedLat :
              /\ \A v \in SelectedLat : lo <= v
              /\ IsRounded(lo, ds_out.attrs.TC_minimum_lat)
        /\ \E hi \in SelectedLat :
              /\ \A v \in SelectedLat : hi >= v
              /\ IsRounded(hi, ds_out.attrs.TC_maximum_lat)
        /\ \E lo \in SelectedLon :
              /\ \A v \in SelectedLon : lo <= v
              /\ IsRounded(lo, ds_out.attrs.TC_minimum_lon)
        /\ \E hi \in SelectedLon :
              /\ \A v \in SelectedLon : hi >= v
              /\ IsRounded(hi, ds_out.attrs.TC_maximum_lon)

\* IDA 2021 among two storms: latitude 13.125..35.625 and longitude
\* -90.125..-75.375 round to 13.12, 35.62, -90.12 and -75.38, while the merged
\* granules reach beyond them
C9_Witness ==
    /\ entry = "build_output_dataset" /\ Returned("build_output_dataset")
    /\ name = IDA /\ year = 2021
    /\ Len(ibt_nc) = 2
    /\ ds_out.attrs.TC_minimum_lat = 1312
    /\ ds_out.attrs.TC_maximum_lat = 3562
    /\ ds_out.attrs.TC_minimum_lon = -9012
    /\ ds_out.attrs.TC_maximum_lon = -7538
    /\ \E p \in Range(ds_img.Scanline) : p[1] > 285

ToggleOn == argv.flag # "--no-filter-missing-wmo"

\* C10 as stated: for every storm year the loader is called with the filter
\* enabled exactly when the toggle is on, explicitly or by default.
C10_ToggleControlsFilter ==
    (entry = "main" /\ pc = "get_storm_track") => (filter_missing_wmo <=> ToggleOn)

\* C10 amended: for every storm year other than 2021 the loader is called with
\* the filter enabled exactly when the toggle is on, explicitly or by default;
\* for 2021 it is called with the filter disabled whatever the toggle.
C10_ToggleControlsFilterExcept2021 ==
    (entry = "main" /\ pc = "get_storm_track") =>
        /\ argv.year # 2021 => (filter_missing_wmo <=> ToggleOn)
        /\ argv.year = 2021 => ~ filter_missing_wmo

\* no toggle on the command line, year 2020: the loader is about to run filtering
C10_Witness ==
    /\ entry = "main" /\ pc = "get_storm_track"
    /\ argv.flag = "" /\ argv.year = 2020
    /\ filter_missing_wmo

====
